---------------------------- MODULE Spec2Model ----------------------------
(***************************************************************************)
(* Model of astro_bot3.py: the scientific value parser                     *)
(* (CelestialDatabase.parse_scientific_number), the density calculator     *)
(* (CelestialDatabase.calculate_density, calculate_density_from_text) and   *)
(* the navigation handlers (handle_message, button_callback).              *)
(*                                                                         *)
(* Text is a sequence of characters.  A character is written as a short    *)
(* ASCII name:                                                             *)
(*    "0".."9" "." "," " " "+" "-" "^" "*" "=" ":" "e" "E"   themselves     *)
(*    "mul"            the multiplication glyph U+00D7                     *)
(*    "sup0".."sup9"   the superscript digits U+2070, U+00B9, ...          *)
(*    "sup-"           the superscript minus U+207B                        *)
(*    lower-case Latin letters other than e   Cyrillic lower-case letters  *)
(*    (transliterated), upper-case Latin other than E: their capitals      *)
(* Python floats are modelled by exact rational arithmetic on naturals of  *)
(* unbounded size (rounding, inf and nan are not modelled).                *)
(***************************************************************************)
EXTENDS Integers, Sequences, FiniteSets, TLC

VARIABLES
    value_str,   \* parser harness: the argument of parse_scientific_number
    parsed,      \* parser harness: what the call returned ("pending" before)
    data,        \* CELESTIAL_DATA: body name -> record (mass and radius strings)
    inbox,       \* calculator harness: the command the user is about to send
    density,     \* calculator harness: the body calculate_density was called on, its result
    chat,        \* the bot's last messages: the inline markup each one carries
    replyKb,     \* the reply keyboard shown below the chat
    event,       \* the event handled last
    renders,     \* the outbound calls the last handler made, in order
    storage,     \* the file celestial_data.json
    pc,          \* the process: where it stands between import and serving
    boot,        \* what the process met at startup: the file, the outcome of save_data
    writes,      \* how many times celestial_data.json was opened for writing
    procs,       \* several instances: each one's position, catalogue and lock descriptor
    lock         \* /tmp/astro_bot.lock: the inode under the path, who holds a flock on each inode

vars ==
    <<value_str, parsed, data, inbox, density, chat, replyKb, event, renders,
      storage, pc, boot, writes, procs, lock>>

----------------------------------------------------------------------------
(* Characters *)

Digits == {"0", "1", "2", "3", "4", "5", "6", "7", "8", "9"}

DigitVal ==
    [c \in Digits |->
        CASE c = "0" -> 0 [] c = "1" -> 1 [] c = "2" -> 2 [] c = "3" -> 3
          [] c = "4" -> 4 [] c = "5" -> 5 [] c = "6" -> 6 [] c = "7" -> 7
          [] c = "8" -> 8 [] c = "9" -> 9]

SupDigits ==
    {"sup0", "sup1", "sup2", "sup3", "sup4", "sup5", "sup6", "sup7", "sup8", "sup9"}

\* superscript_map of parse_scientific_number: the ten superscript digits.
superscript_map ==
    [c \in SupDigits |->
        CASE c = "sup0" -> "0" [] c = "sup1" -> "1" [] c = "sup2" -> "2"
          [] c = "sup3" -> "3" [] c = "sup4" -> "4" [] c = "sup5" -> "5"
          [] c = "sup6" -> "6" [] c = "sup7" -> "7" [] c = "sup8" -> "8"
          [] c = "sup9" -> "9"]

\* The inverse image, used to write inputs: digit character -> superscript.
SupOf ==
    [c \in Digits |-> CHOOSE s \in SupDigits : superscript_map[s] = c]

\* str.lower() on one character: only cased letters change.
UpperLetters == {"E", "M", "A", "S", "R", "D", "I", "U", "P", "L", "O", "T", "N", "Q"}

LowerChar(c) ==
    CASE c = "E" -> "e" [] c = "M" -> "m" [] c = "A" -> "a" [] c = "S" -> "s"
      [] c = "R" -> "r" [] c = "D" -> "d" [] c = "I" -> "i" [] c = "U" -> "u"
      [] c = "P" -> "p" [] c = "L" -> "l" [] c = "O" -> "o" [] c = "T" -> "t"
      [] c = "N" -> "n" [] c = "Q" -> "q"
      [] OTHER -> c

lower(s) == [i \in 1..Len(s) |-> LowerChar(s[i])]

----------------------------------------------------------------------------
(* Naturals of unbounded size: little-endian sequences of limbs in base    *)
(* 10000, without leading zero limbs (zero is the empty sequence).         *)

Base == 100 * 100

BigZero == <<>>
BigOne == <<1>>

RECURSIVE BigTrim(_)
BigTrim(a) ==
    IF a = <<>> THEN <<>>
    ELSE IF a[Len(a)] = 0 THEN BigTrim(SubSeq(a, 1, Len(a) - 1))
    ELSE a

BigOfInt(k) ==
    IF k = 0 THEN <<>>
    ELSE IF k < Base THEN <<k>>
    ELSE IF k < Base * Base THEN <<k % Base, k \div Base>>
    ELSE <<k % Base, (k \div Base) % Base, k \div (Base * Base)>>

Limb(a, i) == IF i <= Len(a) THEN a[i] ELSE 0

RECURSIVE BigAddFrom(_, _, _, _)
BigAddFrom(a, b, i, carry) ==
    IF i > Len(a) /\ i > Len(b)
    THEN IF carry = 0 THEN <<>> ELSE <<carry>>
    ELSE LET t == Limb(a, i) + Limb(b, i) + carry
         IN  <<t % Base>> \o BigAddFrom(a, b, i + 1, t \div Base)

BigAdd(a, b) == BigAddFrom(a, b, 1, 0)

\* a - b for a >= b
RECURSIVE BigSubFrom(_, _, _, _)
BigSubFrom(a, b, i, borrow) ==
    IF i > Len(a) THEN <<>>
    ELSE LET t == Limb(a, i) - Limb(b, i) - borrow
         IN  IF t < 0
             THEN <<t + Base>> \o BigSubFrom(a, b, i + 1, 1)
             ELSE <<t>> \o BigSubFrom(a, b, i + 1, 0)

BigSub(a, b) == BigTrim(BigSubFrom(a, b, 1, 0))

\* -1, 0, 1 as a < b, a = b, a > b
RECURSIVE BigCmpFrom(_, _, _)
BigCmpFrom(a, b, i) ==
    IF i = 0 THEN 0
    ELSE IF a[i] < b[i] THEN -1
    ELSE IF a[i] > b[i] THEN 1
    ELSE BigCmpFrom(a, b, i - 1)

BigCmp(a, b) ==
    IF Len(a) < Len(b) THEN -1
    ELSE IF Len(a) > Len(b) THEN 1
    ELSE BigCmpFrom(a, b, Len(a))

\* a * k for 0 <= k < Base
RECURSIVE BigMulSmallFrom(_, _, _, _)
BigMulSmallFrom(a, k, i, carry) ==
    IF i > Len(a)
    THEN IF carry = 0 THEN <<>> ELSE <<carry>>
    ELSE LET t == a[i] * k + carry
         IN  <<t % Base>> \o BigMulSmallFrom(a, k, i + 1, t \div Base)

BigMulSmall(a, k) == IF k = 0 THEN <<>> ELSE BigMulSmallFrom(a, k, 1, 0)

BigShift(a, limbs) ==
    IF a = <<>> THEN <<>> ELSE [i \in 1..limbs |-> 0] \o a

RECURSIVE BigMulFrom(_, _, _)
BigMulFrom(a, b, j) ==
    IF j > Len(b) THEN <<>>
    ELSE BigAdd(BigShift(BigMulSmall(a, b[j]), j - 1), BigMulFrom(a, b, j + 1))

BigMul(a, b) == IF a = <<>> \/ b = <<>> THEN <<>> ELSE BigMulFrom(a, b, 1)

RECURSIVE BigPow(_, _)
BigPow(a, k) == IF k = 0 THEN BigOne ELSE BigMul(a, BigPow(a, k - 1))

SmallPow10(r) == CASE r = 0 -> 1 [] r = 1 -> 10 [] r = 2 -> 100 [] OTHER -> 1000

BigPow10(k) == [i \in 1..(k \div 4) |-> 0] \o <<SmallPow10(k % 4)>>

\* The natural written by a sequence of digit characters.
RECURSIVE BigOfDigits(_)
BigOfDigits(ds) ==
    IF ds = <<>> THEN <<>>
    ELSE BigAdd(BigMulSmall(BigOfDigits(SubSeq(ds, 1, Len(ds) - 1)), 10),
                BigOfInt(DigitVal[ds[Len(ds)]]))

\* The value of a short natural as an integer; -1 when it does not fit one limb pair.
BigToInt(a) ==
    IF Len(a) = 0 THEN 0
    ELSE IF Len(a) = 1 THEN a[1]
    ELSE IF Len(a) = 2 THEN a[1] + Base * a[2]
    ELSE -1

----------------------------------------------------------------------------
(* Numeric values: exact rationals s * n / d (s the sign, d > 0), and the  *)
(* other outcomes of an evaluation.                                        *)
(*   "num"        a number, with its exact value                           *)
(*   "none"       Python's None (parse_scientific_number caught an error)  *)
(*   "ellipsis"   Python's Ellipsis object                                 *)
(*   "untracked"  the evaluation leaves the exact arithmetic of this model *)
(*                (a non-integer or very large exponent): its outcome is   *)
(*                not determined here                                      *)

Val(k, s, n, d) == [k |-> k, s |-> s, n |-> n, d |-> d]

None == Val("none", 0, <<>>, <<>>)
Ellipsis == Val("ellipsis", 0, <<>>, <<>>)
Untracked == Val("untracked", 0, <<>>, <<>>)
Pending == Val("pending", 0, <<>>, <<>>)

Rat(s, n, d) == IF n = <<>> THEN Val("num", 0, <<>>, BigOne) ELSE Val("num", s, n, d)

RatZero == Rat(0, <<>>, BigOne)
RatOfInt(k) == IF k < 0 THEN Rat(-1, BigOfInt(-k), BigOne) ELSE Rat(1, BigOfInt(k), BigOne)

IsNum(v) == v.k = "num"

RatNeg(a) == Rat(-a.s, a.n, a.d)

RatMul(a, b) == Rat(a.s * b.s, BigMul(a.n, b.n), BigMul(a.d, b.d))

\* a / b for b # 0
RatDiv(a, b) == Rat(a.s * b.s, BigMul(a.n, b.d), BigMul(a.d, b.n))

RatAdd(a, b) ==
    LET x == BigMul(a.n, b.d)
        y == BigMul(b.n, a.d)
        d == BigMul(a.d, b.d)
    IN  IF a.s = 0 THEN b
        ELSE IF b.s = 0 THEN a
        ELSE IF a.s = b.s THEN Rat(a.s, BigAdd(x, y), d)
        ELSE IF BigCmp(x, y) >= 0 THEN Rat(a.s, BigSub(x, y), d)
        ELSE Rat(b.s, BigSub(y, x), d)

RatEq(a, b) ==
    /\ a.s = b.s
    /\ BigMul(a.n, b.d) = BigMul(b.n, a.d)

\* a < b
RatLess(a, b) == RatAdd(a, RatNeg(b)).s < 0

\* a ** k for an integer k >= 0
RatPowNat(a, k) ==
    IF k = 0 THEN RatOfInt(1)
    ELSE Rat(IF a.s < 0 /\ k % 2 = 0 THEN 1 ELSE a.s, BigPow(a.n, k), BigPow(a.d, k))

\* The largest decimal exponent and the largest power this model computes.
ExpCap == 400

\* The value of digits * 10^e10, with an integer value kept with d = 1.
RECURSIVE MkDec(_, _)
MkDec(ds, e10) ==
    LET n == BigOfDigits(ds)
    IN  IF n = <<>> THEN RatZero
        ELSE IF e10 >= 0 THEN Rat(1, BigMul(n, BigPow10(e10)), BigOne)
        ELSE IF ds[Len(ds)] = "0" THEN MkDec(SubSeq(ds, 1, Len(ds) - 1), e10 + 1)
        ELSE Rat(1, n, BigPow10(-e10))

\* A decimal literal <int>.<frac>e<sign><exp> (float syntax of Python).
DecimalLiteral(int, frac, negExp, exp) ==
    LET e == BigToInt(BigOfDigits(exp))
    IN  IF e < 0 \/ e > ExpCap THEN Untracked
        ELSE MkDec(int \o frac, (IF negExp THEN -e ELSE e) - Len(frac))

----------------------------------------------------------------------------
(* Python's eval on the text parse_scientific_number hands it: characters  *)
(* 0-9 . e E + - * only.  Tokens as the tokenizer cuts them, then the      *)
(* expression grammar  expr: term (('+'|'-') term)*,  term: factor ('*'    *)
(* factor)*,  factor: ('+'|'-') factor | power,  power: atom ['**' factor] *)

Tok(t, op, v) == [t |-> t, op |-> op, v |-> v]

RECURSIVE DigitsEnd(_, _)
DigitsEnd(s, i) ==
    IF i <= Len(s) /\ s[i] \in Digits THEN DigitsEnd(s, i + 1) ELSE i

RECURSIVE NameEnd(_, _)
NameEnd(s, i) ==
    IF i <= Len(s) /\ s[i] \in Digits \cup {"e", "E"} THEN NameEnd(s, i + 1) ELSE i

\* The number token starting at s[i] (a digit, or a point before a digit).
NumberToken(s, i) ==
    LET j == DigitsEnd(s, i)
        hasDot == j <= Len(s) /\ s[j] = "."
        k == IF hasDot THEN DigitsEnd(s, j + 1) ELSE j
        frac == IF hasDot THEN SubSeq(s, j + 1, k - 1) ELSE <<>>
        hasE == k <= Len(s) /\ s[k] \in {"e", "E"}
        signed == hasE /\ k + 1 <= Len(s) /\ s[k + 1] \in {"+", "-"}
        p == IF signed THEN k + 2 ELSE k + 1
        expOk == hasE /\ p <= Len(s) /\ s[p] \in Digits
        m == IF expOk THEN DigitsEnd(s, p) ELSE k
        int == SubSeq(s, i, j - 1)
        leadingZero == /\ ~hasDot /\ ~hasE /\ Len(int) > 1 /\ int[1] = "0"
                       /\ \E q \in 1..Len(int) : int[q] # "0"
        nameFollows == m <= Len(s) /\ s[m] \in {"e", "E"}
    IN  IF leadingZero \/ nameFollows
        THEN [tok |-> Tok("ERR", "", None), next |-> Len(s) + 1]
        ELSE [tok |-> Tok("NUM", "",
                          DecimalLiteral(int, frac, signed /\ s[k + 1] = "-",
                                         IF expOk THEN SubSeq(s, p, m - 1) ELSE <<>>)),
              next |-> m]

RECURSIVE Tokenize(_, _)
Tokenize(s, i) ==
    IF i > Len(s) THEN <<>>
    ELSE LET c == s[i]
             dotDigit == c = "." /\ i + 1 <= Len(s) /\ s[i + 1] \in Digits
         IN  IF c \in Digits \/ dotDigit
             THEN LET Rest(r) == <<r.tok>> \o Tokenize(s, r.next)
                  IN  Rest(NumberToken(s, i))
             ELSE IF c = "."
             THEN IF i + 2 <= Len(s) /\ s[i + 1] = "." /\ s[i + 2] = "."
                  THEN <<Tok("ELLIPSIS", "", None)>> \o Tokenize(s, i + 3)
                  ELSE <<Tok("DOT", "", None)>> \o Tokenize(s, i + 1)
             ELSE IF c \in {"e", "E"}
             THEN <<Tok("NAME", "", None)>> \o Tokenize(s, NameEnd(s, i))
             ELSE IF c = "*" /\ i + 1 <= Len(s) /\ s[i + 1] = "*"
             THEN <<Tok("OP", "**", None)>> \o Tokenize(s, i + 2)
             ELSE IF c \in {"+", "-", "*"}
             THEN <<Tok("OP", c, None)>> \o Tokenize(s, i + 1)
             ELSE <<Tok("ERR", "", None)>>

\* base ** exponent; None stands for the ZeroDivisionError of 0 ** negative.
PyPow(a, b) ==
    IF ~IsNum(a) \/ ~IsNum(b) THEN Untracked
    ELSE IF a.s = 0
    THEN IF b.s < 0 THEN None ELSE IF b.s = 0 THEN RatOfInt(1) ELSE RatZero
    ELSE LET k == BigToInt(b.n)
         IN  IF b.d # BigOne \/ k < 0 \/ k > ExpCap THEN Untracked
             ELSE IF b.s >= 0 THEN RatPowNat(a, k)
             ELSE RatPowNat(RatDiv(RatOfInt(1), a), k)

PyMul(a, b) == IF IsNum(a) /\ IsNum(b) THEN RatMul(a, b) ELSE Untracked
PyAdd(a, b) == IF IsNum(a) /\ IsNum(b) THEN RatAdd(a, b) ELSE Untracked
PyNeg(a) == IF IsNum(a) THEN RatNeg(a) ELSE Untracked

PFail == [ok |-> FALSE, v |-> None, i |-> 0]
POk(v, i) == [ok |-> TRUE, v |-> v, i |-> i]

IsOp(ts, i, op) == i <= Len(ts) /\ ts[i].t = "OP" /\ ts[i].op = op

RECURSIVE ParseFactor(_, _)
ParsePower(ts, i) ==
    IF i > Len(ts) \/ ts[i].t # "NUM" THEN PFail
    ELSE IF IsOp(ts, i + 1, "**")
    THEN LET Raised(p, j) == IF p = None THEN PFail ELSE POk(p, j)
             Power(r) == IF ~r.ok THEN PFail ELSE Raised(PyPow(ts[i].v, r.v), r.i)
         IN  Power(ParseFactor(ts, i + 2))
    ELSE POk(ts[i].v, i + 1)

ParseFactor(ts, i) ==
    IF IsOp(ts, i, "+") THEN ParseFactor(ts, i + 1)
    ELSE IF IsOp(ts, i, "-")
    THEN LET Negated(r) == IF r.ok THEN POk(PyNeg(r.v), r.i) ELSE PFail
         IN  Negated(ParseFactor(ts, i + 1))
    ELSE ParsePower(ts, i)

RECURSIVE TermLoop(_, _, _)
TermLoop(ts, acc, i) ==
    IF IsOp(ts, i, "*")
    THEN LET Times(r) == IF r.ok THEN TermLoop(ts, PyMul(acc, r.v), r.i) ELSE PFail
         IN  Times(ParseFactor(ts, i + 1))
    ELSE POk(acc, i)

ParseTerm(ts, i) ==
    LET First(r) == IF r.ok THEN TermLoop(ts, r.v, r.i) ELSE PFail
    IN  First(ParseFactor(ts, i))

RECURSIVE ExprLoop(_, _, _)
ExprLoop(ts, acc, i) ==
    IF IsOp(ts, i, "+") \/ IsOp(ts, i, "-")
    THEN LET Plus(r) ==
                 IF ~r.ok THEN PFail
                 ELSE ExprLoop(ts, PyAdd(acc, IF ts[i].op = "-" THEN PyNeg(r.v) ELSE r.v), r.i)
         IN  Plus(ParseTerm(ts, i + 1))
    ELSE POk(acc, i)

ParseExpr(ts) ==
    LET First(r) == IF r.ok THEN ExprLoop(ts, r.v, r.i) ELSE PFail
        Whole(e) == IF e.ok /\ e.i = Len(ts) + 1 THEN e.v ELSE None
    IN  Whole(First(ParseTerm(ts, 1)))

\* eval(value_str): the value, or None for any exception (SyntaxError,
\* NameError on e/E, AttributeError, TypeError, ZeroDivisionError), all of which
\* parse_scientific_number catches.
eval(s) ==
    LET Parsed(ts) ==
            IF \E i \in 1..Len(ts) : ts[i].t \in {"ERR", "NAME", "DOT"} THEN None
            ELSE IF Len(ts) = 1 /\ ts[1].t = "ELLIPSIS" THEN Ellipsis
            ELSE IF \E i \in 1..Len(ts) : ts[i].t = "ELLIPSIS" THEN None
            ELSE ParseExpr(ts)
    IN  Parsed(Tokenize(s, 1))

----------------------------------------------------------------------------
(* CelestialDatabase.parse_scientific_number *)

\* The characters re.sub keeps: [\d mul . e E + - ^ sup0..sup9]
KeptChars == Digits \cup {"mul", ".", "e", "E", "+", "-", "^"} \cup SupDigits

re_sub_units(s) == SelectSeq(s, LAMBDA c : c \in KeptChars)

replace_superscripts(s) ==
    [i \in 1..Len(s) |-> IF s[i] \in SupDigits THEN superscript_map[s[i]] ELSE s[i]]

RECURSIVE replace_operators(_)
replace_operators(s) ==
    IF s = <<>> THEN <<>>
    ELSE (CASE s[1] = "mul" -> <<"*">>
            [] s[1] = "^" -> <<"*", "*">>
            [] OTHER -> <<s[1]>>) \o replace_operators(Tail(s))

parse_scientific_number(s) ==
    IF s = <<>> THEN None
    ELSE eval(replace_operators(replace_superscripts(re_sub_units(s))))

----------------------------------------------------------------------------
(* float(): Python's conversion of a text to a float.  [sign] digits       *)
(* [. digits] [e [sign] digits] or [sign] . digits [...]; anything else is *)
(* a ValueError, modelled as None ("nan" is a float outside the exact      *)
(* arithmetic; "inf" cannot be written with the characters modelled).      *)

float(s) ==
    LET signed == Len(s) >= 1 /\ s[1] \in {"+", "-"}
        i == IF signed THEN 2 ELSE 1
        j == DigitsEnd(s, i)
        hasDot == j <= Len(s) /\ s[j] = "."
        k == IF hasDot THEN DigitsEnd(s, j + 1) ELSE j
        int == SubSeq(s, i, j - 1)
        frac == IF hasDot THEN SubSeq(s, j + 1, k - 1) ELSE <<>>
        hasE == k <= Len(s) /\ s[k] \in {"e", "E"}
        esigned == hasE /\ k + 1 <= Len(s) /\ s[k + 1] \in {"+", "-"}
        p == IF esigned THEN k + 2 ELSE k + 1
        m == IF hasE THEN DigitsEnd(s, p) ELSE k
        exp == IF hasE THEN SubSeq(s, p, m - 1) ELSE <<>>
        v == DecimalLiteral(int, frac, esigned /\ s[k + 1] = "-", exp)
    IN  IF lower(SubSeq(s, i, Len(s))) = <<"n", "a", "n">> THEN Untracked  \* nan
        ELSE IF \/ int \o frac = <<>>
                \/ hasE /\ exp = <<>>
                \/ m # Len(s) + 1
        THEN None
        ELSE IF signed /\ s[1] = "-" THEN PyNeg(v) ELSE v

----------------------------------------------------------------------------
(* The density computation *)

\* 3.1415926535, the literal of both density computations
PI == MkDec(<<"3", "1", "4", "1", "5", "9", "2", "6", "5", "3", "5">>, -10)

FourThirds == Rat(1, BigOfInt(4), BigOfInt(3))

\* volume = (4 / 3) * 3.1415926535 * (radius ** 3)
SphereVolume(radius) == RatMul(RatMul(FourThirds, PI), RatPowNat(radius, 3))

Thousand == RatOfInt(10 * 100)

NoDensity == [k |-> "none", mass |-> None, radius |-> None, volume |-> None,
              density_kg_m3 |-> None, density_g_cm3 |-> None]

DensityDict(k, mass, radius, volume, dens) ==
    [k |-> k, mass |-> mass, radius |-> radius, volume |-> volume,
     density_kg_m3 |-> dens, density_g_cm3 |-> RatDiv(dens, Thousand)]

\* calculate_density, from the parsed values on: the guarded quotient and the dict.
DensityOfValues(mass, radius) ==
    LET Dict(volume) ==
            DensityDict("dict", mass, radius, volume,
                        IF volume.s > 0 THEN RatDiv(mass, volume) ELSE RatZero)
    IN  Dict(SphereVolume(radius))

\* body.get(field, ''): a record without the field gives the empty text.
GetField(body, field) == IF field \in DOMAIN body THEN body[field] ELSE <<>>

\* CelestialDatabase.calculate_density(body_name) on catalogue d.  A parsed
\* Ellipsis raises TypeError in the arithmetic, which is caught: None.
calculate_density(d, body_name) ==
    IF body_name \notin DOMAIN d THEN NoDensity
    ELSE LET Computed(mass, radius) ==
                 IF mass = None \/ radius = None THEN NoDensity
                 ELSE IF mass = Ellipsis \/ radius = Ellipsis THEN NoDensity
                 ELSE IF ~IsNum(mass) \/ ~IsNum(radius)
                 THEN [NoDensity EXCEPT !.k = "untracked"]
                 ELSE DensityOfValues(mass, radius)
         IN  Computed(parse_scientific_number(GetField(d[body_name], "mass")),
                      parse_scientific_number(GetField(d[body_name], "radius")))

----------------------------------------------------------------------------
(* Outbound calls.  A render is one call on the transport:                 *)
(*   call    "reply_text" | "edit_message_text" | "edit_message_reply_markup" *)
(*   kind    which text is sent, args its parameters (texts), nums the     *)
(*           numbers it shows (values)                                     *)
(*   markup  the reply_markup argument: "none" when the call passes none,  *)
(*           "main_menu" for the reply keyboard, else an inline keyboard   *)

Render(call, kind, args, nums, markup) ==
    [call |-> call, kind |-> kind, args |-> args, nums |-> nums, markup |-> markup]

Reply(kind, args, markup) == Render("reply_text", kind, args, <<>>, markup)
Edit(kind, args, markup) == Render("edit_message_text", kind, args, <<>>, markup)

\* find(sub, start) of Python on sequences, 1-based; 0 when absent (Python's -1).
RECURSIVE FindFrom(_, _, _)
FindFrom(s, sub, i) ==
    IF i + Len(sub) - 1 > Len(s) THEN 0
    ELSE IF SubSeq(s, i, i + Len(sub) - 1) = sub THEN i
    ELSE FindFrom(s, sub, i + 1)

startswith(s, prefix) ==
    Len(s) >= Len(prefix) /\ SubSeq(s, 1, Len(prefix)) = prefix

\* The text unchanged: the comma is left in place
keep_comma(s) == s

\* str.replace(",", ".")
replace_comma(s) == [i \in 1..Len(s) |-> IF s[i] = "," THEN "." ELSE s[i]]

\* The keywords of the density command (Cyrillic, transliterated).
KwDensity == <<"p", "l", "o", "t", "n", "o", "s", "t", "q", ":">>
KwMass == <<"m", "a", "s", "s", "a", "=">>
KwRadius == <<"r", "a", "d", "i", "u", "s", "=">>

\* text[start:end] with end = text.find(" ", start), or len(text) when no space follows
TokenAfter(text, kw) ==
    LET start == FindFrom(text, kw, 1) + Len(kw)
        sp == FindFrom(text, <<" ">>, start)
        stop == IF sp = 0 THEN Len(text) + 1 ELSE sp
    IN  SubSeq(text, start, stop - 1)

\* The replies of the density command sent with the main keyboard
DensityReplyWithMenu == "main_menu"

\* The replies of the density command: reply_text without reply_markup
DensityReplyMarkup == "none"

\* A ValueError of float that no handler catches: no reply is sent
ValueError_escapes == <<>>

\* except ValueError: the reply on a text float rejects
except_ValueError == <<Reply("density_bad_number", <<>>, DensityReplyMarkup)>>

\* calculate_density_from_text: the one reply it sends.
calculate_density_from_text(text0) ==
    LET text == lower(text0)
    IN  IF FindFrom(text, KwMass, 1) = 0 \/ FindFrom(text, KwRadius, 1) = 0
        THEN <<Reply("density_bad_format", <<>>, DensityReplyMarkup)>>
        ELSE LET Result(mass, radius, volume, density_kg_m3) ==
                     <<Render("reply_text", "density_result", <<>>,
                              <<mass, radius, volume, density_kg_m3,
                                RatDiv(density_kg_m3, Thousand)>>,
                              DensityReplyMarkup)>>
                 Divided(mass, radius, volume) ==
                     IF volume.s = 0
                     THEN <<Reply("density_calc_error", <<"ZeroDivisionError">>, DensityReplyMarkup)>>
                     ELSE Result(mass, radius, volume, RatDiv(mass, volume))
                 Computed(mass, radius) ==
                     IF mass = None \/ radius = None
                     THEN except_ValueError
                     ELSE IF ~IsNum(mass) \/ ~IsNum(radius)
                     THEN <<Reply("density_untracked", <<>>, DensityReplyMarkup)>>
                     ELSE Divided(mass, radius, SphereVolume(radius))
             IN  Computed(float(replace_comma(TokenAfter(text, KwMass))),
                          float(replace_comma(TokenAfter(text, KwRadius))))

----------------------------------------------------------------------------
(* The catalogue *)

\* The attributes format_body_info reads with body[...]: beside mass and
\* radius, these seven
RequiredAttrs == {"emoji", "name_en", "type", "accuracy", "sources", "task", "solution"}

\* The attributes of the seeded records beside mass and radius
PlanetAttrs == RequiredAttrs \cup {"distance", "period", "temperature"}
SunAttrs == PlanetAttrs \cup {"luminosity"}
SiriusAttrs == RequiredAttrs \cup {"distance", "luminosity", "temperature"}

\* CelestialDatabase.create_sample_data: the ten records.  A record holds
\* the texts of mass and radius, and in attrs the names of its other
\* attributes that hold a non-empty text.
create_sample_data ==
    "Solntse" :> [mass |-> <<"1", ".", "9", "8", "8", "5", "mul", "1", "0", "sup3", "sup0", " ", "k", "g">>,
                  radius |-> <<"6", ".", "9", "5", "7", "mul", "1", "0", "sup8", " ", "m">>,
                  attrs |-> SunAttrs] @@
    "Merkuriy" :> [mass |-> <<"3", ".", "3", "0", "1", "1", "mul", "1", "0", "sup2", "sup3", " ", "k", "g">>,
                   radius |-> <<"2", ".", "4", "3", "9", "7", "mul", "1", "0", "sup6", " ", "m">>,
                   attrs |-> PlanetAttrs] @@
    "Venera" :> [mass |-> <<"4", ".", "8", "6", "7", "5", "mul", "1", "0", "sup2", "sup4", " ", "k", "g">>,
                 radius |-> <<"6", ".", "0", "5", "1", "8", "mul", "1", "0", "sup6", " ", "m">>,
                 attrs |-> PlanetAttrs] @@
    "Zemlya" :> [mass |-> <<"5", ".", "9", "7", "2", "2", "mul", "1", "0", "sup2", "sup4", " ", "k", "g">>,
                 radius |-> <<"6", ".", "3", "7", "1", "mul", "1", "0", "sup6", " ", "m">>,
                 attrs |-> PlanetAttrs] @@
    "Mars" :> [mass |-> <<"6", ".", "4", "1", "7", "1", "mul", "1", "0", "sup2", "sup3", " ", "k", "g">>,
               radius |-> <<"3", ".", "3", "8", "9", "5", "mul", "1", "0", "sup6", " ", "m">>,
               attrs |-> PlanetAttrs] @@
    "Yupiter" :> [mass |-> <<"1", ".", "8", "9", "8", "2", "mul", "1", "0", "sup2", "sup7", " ", "k", "g">>,
                  radius |-> <<"6", ".", "9", "9", "1", "1", "mul", "1", "0", "sup7", " ", "m">>,
                  attrs |-> PlanetAttrs] @@
    "Saturn" :> [mass |-> <<"5", ".", "6", "8", "3", "4", "mul", "1", "0", "sup2", "sup6", " ", "k", "g">>,
                 radius |-> <<"5", ".", "8", "2", "3", "2", "mul", "1", "0", "sup7", " ", "m">>,
                 attrs |-> PlanetAttrs] @@
    "Uran" :> [mass |-> <<"8", ".", "6", "8", "1", "0", "mul", "1", "0", "sup2", "sup5", " ", "k", "g">>,
               radius |-> <<"2", ".", "5", "3", "6", "2", "mul", "1", "0", "sup7", " ", "m">>,
               attrs |-> PlanetAttrs] @@
    "Neptun" :> [mass |-> <<"1", ".", "0", "2", "4", "1", "3", "mul", "1", "0", "sup2", "sup6", " ", "k", "g">>,
                 radius |-> <<"2", ".", "4", "6", "2", "2", "mul", "1", "0", "sup7", " ", "m">>,
                 attrs |-> PlanetAttrs] @@
    "Sirius" :> [mass |-> <<"2", ".", "0", "2", " ", "latM", "sunsym", " ", "(", "S", "i", "r", "i", "u", "s", " ", "latA", ")">>,
                 radius |-> <<"1", ".", "7", "1", " ", "latR", "sunsym">>,
                 attrs |-> SiriusAttrs]

----------------------------------------------------------------------------
(* The catalogue store: the file, load_data and save_data.                 *)

\* self.data = {}
EmptyCatalogue == <<>>

\* The file is absent, holds text that is no JSON, or holds the JSON of a
\* catalogue.
Missing == [state |-> "missing", content |-> EmptyCatalogue]
Corrupt == [state |-> "corrupt", content |-> EmptyCatalogue]
Json(d) == [state |-> "json", content |-> d]

\* What a write of the file comes to: it succeeds, open fails and the file
\* is left as it was, or json.dump fails and leaves a truncated text.
SaveOutcomes == {"ok", "open_failed", "dump_failed"}

\* save_data letting the failure of the write through to its caller
save_data_raising(st, d, outcome) ==
    [storage |-> CASE outcome = "ok" -> Json(d)
                   [] outcome = "open_failed" -> st
                   [] outcome = "dump_failed" -> Corrupt,
     raised |-> outcome # "ok"]

\* save_data: the file after the write, and whether the call raised; any
\* exception of the write is caught and logged.
save_data(st, d, outcome) ==
    [storage |-> CASE outcome = "ok" -> Json(d)
                   [] outcome = "open_failed" -> st
                   [] outcome = "dump_failed" -> Corrupt,
     raised |-> FALSE]

\* load_data finding no file and leaving the catalogue empty
load_data_without_seeding(st, readable, outcome) ==
    IF st.state = "json" /\ readable
    THEN [data |-> st.content, storage |-> st]
    ELSE [data |-> EmptyCatalogue, storage |-> st]

\* load_data on the file st: the catalogue in memory and the file after the
\* call.  A missing file is seeded by create_sample_data, which ends with
\* save_data; an exception (the file cannot be opened, json.load rejects
\* its text, a call below raised) leaves the catalogue empty.
load_data(st, readable, outcome) ==
    IF st.state = "missing"
    THEN LET Seeded(saved) ==
                 [data |-> IF saved.raised THEN EmptyCatalogue ELSE create_sample_data,
                  storage |-> saved.storage]
         IN  Seeded(save_data(st, create_sample_data, outcome))
    ELSE IF st.state = "json" /\ readable
    THEN [data |-> st.content, storage |-> st]
    ELSE [data |-> EmptyCatalogue, storage |-> st]

\* The module-level check skipped: the process goes on whatever was loaded
continue_with(d) == "checked"

\* The module-level check after the load: an empty catalogue ends the
\* process with sys.exit(1).
check_loaded(d) == IF d = EmptyCatalogue THEN "aborted" ELSE "checked"

\* The instances of the bot that may run side by side
Procs == {"p1", "p2"}

\* The inodes the lock path may name; "none" is no inode.
Inodes == {"i1", "i2", "i3"}
NoInode == "none"

\* An instance that is not running
Down == [pc |-> "down", data |-> EmptyCatalogue, fd |-> NoInode]

\* No lock file, no flock held
NoLock == [path |-> NoInode, holder |-> [i \in Inodes |-> "none"]]

\* No other instance runs, and nothing was written.
Alone ==
    /\ writes = 0
    /\ procs = [p \in Procs |-> Down]
    /\ lock = NoLock

\* A process that loaded the catalogue d from its file, without a write,
\* and is serving.
Serving(d) ==
    /\ storage = Json(d)
    /\ pc = "serving"
    /\ boot = [state |-> "json", save |-> "none"]
    /\ Alone

----------------------------------------------------------------------------
(* Keyboards.  An inline button's callback_data is modelled by its parts,  *)
(* data.split("_"): "body_Zemlya" is <<"body", "Zemlya">>.                 *)

\* The list of show_celestial_body_inline: the eight planets.
PlanetNames ==
    {"Merkuriy", "Venera", "Zemlya", "Mars", "Yupiter", "Saturn", "Uran", "Neptun"}

ComparePairs ==
    {<<"Zemlya", "Mars">>, <<"Venera", "Zemlya">>, <<"Yupiter", "Saturn">>,
     <<"Solntse", "Sirius">>}

\* The keys of show_task_with_solution's tasks
TaskTypes == {"velocity", "mass", "gravity", "period", "stars"}

BackMain == <<"back", "main">>
BackPlanets == <<"back", "planets">>
BackCompare == <<"back", "compare">>
BackTasks == <<"back", "tasks">>

\* A planet keyboard with a ninth button, for a body the catalogue lacks
get_planets_keyboard_with_pluto ==
    {<<"body", n>> : n \in PlanetNames \cup {"Pluton"}} \cup {BackMain}

get_planets_keyboard == {<<"body", n>> : n \in PlanetNames} \cup {BackMain}
get_compare_keyboard == {<<"compare", p[1], p[2]>> : p \in ComparePairs} \cup {BackMain}
get_tasks_keyboard == {<<"task", t>> : t \in TaskTypes} \cup {BackMain}

\* The callback tokens on the inline keyboard a markup names.
KeyboardTokens(markup) ==
    CASE markup = "planet_picker" -> get_planets_keyboard
      [] markup = "compare_picker" -> get_compare_keyboard
      [] markup = "task_picker" -> get_tasks_keyboard
      [] markup = "back_planets_button" -> {BackPlanets}
      [] markup = "back_main_button" -> {BackMain}
      [] markup = "back_compare_button" -> {BackCompare}
      [] markup = "back_tasks_button" -> {BackTasks}
      [] OTHER -> {}

\* The tokens of every inline keyboard the handlers build
AllTokens ==
    UNION {KeyboardTokens(k) :
              k \in {"planet_picker", "compare_picker", "task_picker",
                     "back_planets_button", "back_main_button",
                     "back_compare_button", "back_tasks_button"}}

\* The labels of get_main_keyboard; a label is one text, written as one symbol.
LabelPlanets == <<"[8 Planet]">>
LabelSirius == <<"[Sirius]">>
LabelSun == <<"[Solntse]">>
LabelCompare == <<"[Sravnit]">>
LabelTasks == <<"[Zadachi]">>
LabelMethods == <<"[Metody]">>
LabelHelp == <<"[Pomoshch]">>

get_main_keyboard ==
    {LabelPlanets, LabelSirius, LabelSun, LabelCompare, LabelTasks, LabelMethods, LabelHelp}

----------------------------------------------------------------------------
(* Handlers: each gives the outbound calls it makes, in order.  A handler  *)
(* that raises makes no further call.                                      *)

start_command == <<Reply("welcome", <<>>, "main_menu")>>

\* 'a' in body, and for the attributes kept in attrs, body['a'] is not empty
HasAttr(body, a) ==
    IF a \in {"mass", "radius"} THEN a \in DOMAIN body
    ELSE "attrs" \in DOMAIN body /\ a \in body.attrs

\* The attributes format_body_info shows when they are there
ShownIfPresent == <<"distance", "period", "luminosity", "temperature">>

\* Those of the attributes names that the record has, in order
RECURSIVE PresentOf(_, _)
PresentOf(body, names) ==
    IF names = <<>> THEN <<>>
    ELSE (IF HasAttr(body, Head(names)) THEN <<Head(names)>> ELSE <<>>)
             \o PresentOf(body, Tail(names))

\* format_body_info: the attributes the text shows, in order; body[...] on
\* an absent attribute raises KeyError.
format_body_info(body) ==
    IF \E a \in RequiredAttrs \cup {"mass", "radius"} : ~HasAttr(body, a)
    THEN [raised |-> TRUE, shown |-> <<>>]
    ELSE [raised |-> FALSE,
          shown |-> <<"emoji", "name_en", "type", "mass", "radius">>
                        \o PresentOf(body, ShownIfPresent)
                        \o <<"accuracy", "sources", "task", "solution">>]

\* show_celestial_body_direct and send_body_info; a KeyError of
\* format_body_info ends the handler before its call.
show_celestial_body_direct(d, body_name) ==
    IF body_name \notin DOMAIN d
    THEN <<Reply("body_not_found", <<body_name>>, "main_menu")>>
    ELSE IF format_body_info(d[body_name]).raised THEN <<>>
    ELSE <<Reply("body_info", <<body_name>>, "main_menu")>>

\* Every body shown through an inline button with the back button of a planet
BodyBackToPlanets(body_name) == "back_planets_button"

\* The back button under a body shown through an inline button
BodyBackMarkup(body_name) ==
    IF body_name \in PlanetNames THEN "back_planets_button" ELSE "back_main_button"

show_celestial_body_inline(d, body_name) ==
    IF body_name \notin DOMAIN d
    THEN <<Edit("body_not_found", <<body_name>>, "none")>>
    ELSE IF format_body_info(d[body_name]).raised THEN <<>>
    ELSE <<Edit("body_info", <<body_name>>, BodyBackMarkup(body_name))>>

\* The pairs show_comparison computes densities for
DensityPairs ==
    {<<"Zemlya", "Mars">>, <<"Venera", "Zemlya">>, <<"Yupiter", "Saturn">>}

\* A comparison with the back button of a task
ComparisonBackToTasks == "back_tasks_button"

\* The back button under a comparison
ComparisonBackMarkup == "back_compare_button"

\* show_comparison.  Its header reads emoji, mass and radius of both
\* records with body[...]: a KeyError ends the handler before its call.
\* The density block is added when both densities are
\* dicts; its ratio density1 / density2 raises ZeroDivisionError on a zero
\* density2, and the handler then makes no call.
show_comparison(d, body1, body2) ==
    IF body1 \notin DOMAIN d \/ body2 \notin DOMAIN d
    THEN <<Edit("pair_not_found", <<>>, "none")>>
    ELSE IF \E b \in {body1, body2}, a \in {"emoji", "mass", "radius"} : ~HasAttr(d[b], a)
    THEN <<>>
    ELSE LET pair == <<body1, body2>>
             narrative == IF pair \in ComparePairs THEN <<"narrative">> ELSE <<>>
             Response(density1, density2) ==
                 LET block == density1.k # "none" /\ density2.k # "none"
                     tracked == density1.k = "dict" /\ density2.k = "dict"
                 IN  IF block /\ tracked /\ density2.density_kg_m3.s = 0
                     THEN <<>>
                     ELSE <<Render("edit_message_text", "comparison", pair \o narrative,
                                   IF ~block THEN <<>>
                                   ELSE IF ~tracked THEN <<Untracked, Untracked, Untracked>>
                                   ELSE <<density1.density_kg_m3, density2.density_kg_m3,
                                          RatDiv(density1.density_kg_m3,
                                                 density2.density_kg_m3)>>,
                                   ComparisonBackMarkup)>>
         IN  IF pair \in DensityPairs
             THEN Response(calculate_density(d, body1), calculate_density(d, body2))
             ELSE <<Render("edit_message_text", "comparison", pair \o narrative, <<>>,
                           ComparisonBackMarkup)>>

\* show_comparison is a function of the catalogue and the pair alone; its
\* calls on the seeded catalogue with a pair of DensityPairs are tabulated once.
SeedComparisons ==
    [pair \in DensityPairs |-> show_comparison(create_sample_data, pair[1], pair[2])]

\* show_comparison as button_callback calls it
call_show_comparison(d, body1, body2) ==
    IF d = create_sample_data /\ <<body1, body2>> \in DensityPairs
    THEN SeedComparisons[<<body1, body2>>]
    ELSE show_comparison(d, body1, body2)

\* The back button under a task
TaskBackMarkup == "back_tasks_button"

show_task_with_solution(task_type) ==
    IF task_type \in TaskTypes
    THEN <<Edit("task", <<task_type>>, TaskBackMarkup)>>
    ELSE <<Edit("task_choose_from_list", <<>>, TaskBackMarkup)>>

\* The pickers the three back tokens render
BackPlanetsMarkup == "planet_picker"
BackCompareMarkup == "compare_picker"
BackTasksMarkup == "task_picker"

\* The main menu sent below the pressed message, which is left as it is
back_main_reply_only == <<Reply("main_menu", <<>>, "main_menu")>>

\* The calls of the back_main branch: the pressed message is rewritten
\* without a keyboard, its markup is cleared, and the main menu is sent.
back_main ==
    <<Edit("back_to_main_menu", <<>>, "none"),
      Render("edit_message_reply_markup", "", <<>>, <<>>, "none"),
      Reply("main_menu", <<>>, "main_menu")>>

\* button_callback on query.data = parts joined by "_" (query.answer() is
\* an acknowledgement, not a render).  Each call on the transport is taken
\* to succeed, so the calls after it are made.
button_callback(d, parts) ==
    IF Len(parts) >= 2 /\ parts[1] = "body"
    THEN show_celestial_body_inline(d, parts[2])
    ELSE IF Len(parts) >= 2 /\ parts[1] = "compare"
    THEN IF Len(parts) = 3 THEN call_show_comparison(d, parts[2], parts[3]) ELSE <<>>
    ELSE IF Len(parts) >= 2 /\ parts[1] = "task"
    THEN show_task_with_solution(parts[2])
    ELSE IF parts = BackMain
    THEN back_main
    ELSE IF parts = BackPlanets THEN <<Edit("planet_prompt", <<>>, BackPlanetsMarkup)>>
    ELSE IF parts = BackCompare THEN <<Edit("compare_prompt", <<>>, BackCompareMarkup)>>
    ELSE IF parts = BackTasks THEN <<Edit("task_prompt", <<>>, BackTasksMarkup)>>
    ELSE <<>>

handle_message(d, text) ==
    IF text = LabelPlanets THEN <<Reply("planet_prompt", <<>>, "planet_picker")>>
    ELSE IF text = LabelSirius THEN show_celestial_body_direct(d, "Sirius")
    ELSE IF text = LabelSun THEN show_celestial_body_direct(d, "Solntse")
    ELSE IF text = LabelCompare THEN <<Reply("compare_prompt", <<>>, "compare_picker")>>
    ELSE IF text = LabelTasks THEN <<Reply("task_prompt", <<>>, "task_picker")>>
    ELSE IF text = LabelMethods THEN <<Reply("methods", <<>>, "main_menu")>>
    ELSE IF text = LabelHelp THEN <<Reply("help", <<>>, "main_menu")>>
    ELSE IF startswith(lower(text), KwDensity) THEN calculate_density_from_text(text)
    ELSE <<Reply("use_menu", <<>>, "main_menu")>>

----------------------------------------------------------------------------
(* The chat: what the calls leave on the user's screen.  chat holds the    *)
(* inline markup of the bot's last MaxMsgs messages (older ones scroll     *)
(* out); msg is the position of the message whose button was pressed, 0    *)
(* when there is none or it has scrolled out.                              *)

MaxMsgs == 2

InlineOf(markup) == IF markup \in {"none", "main_menu"} THEN "none" ELSE markup

ApplyRender(st, r) ==
    IF r.call = "reply_text"
    THEN LET all == Append(st.chat, InlineOf(r.markup))
             drop == Len(all) > MaxMsgs
         IN  [chat |-> IF drop THEN Tail(all) ELSE all,
              kb |-> IF r.markup = "main_menu" THEN "main_menu" ELSE st.kb,
              msg |-> IF drop /\ st.msg > 0 THEN st.msg - 1 ELSE st.msg]
    ELSE \* edit_message_text, edit_message_reply_markup: the pressed message
         IF st.msg = 0 THEN st
         ELSE [st EXCEPT !.chat[st.msg] = InlineOf(r.markup)]

RECURSIVE ApplyAll(_, _)
ApplyAll(st, rs) ==
    IF rs = <<>> THEN st ELSE ApplyAll(ApplyRender(st, Head(rs)), Tail(rs))

Event(kind, payload, msg, shown) ==
    [kind |-> kind, payload |-> payload, msg |-> msg, shown |-> shown]

NoEvent == Event("none", <<>>, 0, "none")

\* One event handled, the handler writing the catalogue to the file
HandledSaving(kind, payload, m, rs) ==
    LET st == ApplyAll([chat |-> chat, kb |-> replyKb, msg |-> m], rs)
    IN  /\ renders' = rs
        /\ chat' = st.chat
        /\ replyKb' = st.kb
        /\ event' = Event(kind, payload, st.msg, IF m = 0 THEN "none" ELSE chat[m])
        /\ storage' = Json(data)
        /\ UNCHANGED <<value_str, parsed, data, inbox, density, pc, boot,
                       writes, procs, lock>>

\* One event handled: the handler's calls rs are made and shown.
Handled(kind, payload, m, rs) ==
    LET st == ApplyAll([chat |-> chat, kb |-> replyKb, msg |-> m], rs)
    IN  /\ renders' = rs
        /\ chat' = st.chat
        /\ replyKb' = st.kb
        /\ event' = Event(kind, payload, st.msg, IF m = 0 THEN "none" ELSE chat[m])
        /\ UNCHANGED <<value_str, parsed, data, inbox, density, storage, pc, boot,
                       writes, procs, lock>>

StartCommand == Handled("start", <<>>, 0, start_command)

\* A text handler that greets a user who was not shown the main keyboard
HandleMessageGreetingFirst(text) ==
    Handled("text", text, 0,
            IF replyKb = "main_menu" THEN handle_message(data, text) ELSE start_command)

HandleMessage(text) == Handled("text", text, 0, handle_message(data, text))

\* An inline button of message m is pressed, carrying the token parts.
ButtonCallback(m, parts) ==
    /\ m \in 1..Len(chat)
    /\ Handled("button", parts, m, button_callback(data, parts))

----------------------------------------------------------------------------
(* The parser on its own: one call on each text of ParseInputs. *)

\* All texts of at most n characters over the set chars
TextsUpTo(chars, n) == UNION {[1..m -> chars] : m \in 0..n}

MaxExpDigits == 2
MaxJunkLen == 4
MaxGenLen == 3

\* <d>.<d> mul 10 <superscript exponent>, with a superscript minus when neg
SciText(d1, d2, neg, exp) ==
    <<d1, ".", d2, "mul", "1", "0">> \o (IF neg THEN <<"sup-">> ELSE <<>>)
        \o [i \in 1..Len(exp) |-> SupOf[exp[i]]]

ExpTexts == TextsUpTo(Digits, MaxExpDigits) \ {<<>>}

SciTexts ==
    {SciText(d1, d2, neg, exp) :
        d1 \in Digits, d2 \in Digits, neg \in BOOLEAN, exp \in ExpTexts}

\* Characters that are no digits: point, operators, exponent letters, the
\* superscript minus, a unit letter
JunkChars == {".", "mul", "e", "E", "+", "-", "^", "sup-", "k"}
JunkTexts == TextsUpTo(JunkChars, MaxJunkLen)

GenChars == {"0", "1", "2", ".", "e", "+", "-", "mul", "^", "sup2"}
GenTexts == TextsUpTo(GenChars, MaxGenLen)

SampleTexts ==
    UNION {{create_sample_data[b].mass, create_sample_data[b].radius} :
              b \in DOMAIN create_sample_data}

ParseInputs == SciTexts \cup JunkTexts \cup GenTexts \cup SampleTexts

\* What the user is about to send: the text, the mass and radius as typed
\* in it, and the numbers meant by them (<<>> when the user names none).
Inbox(text, mass, radius, meant) ==
    [text |-> text, mass |-> mass, radius |-> radius, meant |-> meant]

NoInbox == Inbox(<<>>, <<>>, <<>>, <<>>)

NoCalc == [name |-> "", result |-> NoDensity, done |-> FALSE]

IdleChat ==
    /\ chat = <<>>
    /\ replyKb = "none"
    /\ event = NoEvent
    /\ renders = <<>>

ParseInit ==
    /\ value_str \in ParseInputs
    /\ parsed = Pending
    /\ data = create_sample_data
    /\ inbox = NoInbox
    /\ density = NoCalc
    /\ IdleChat
    /\ Serving(data)

ParseCall ==
    /\ parsed = Pending
    /\ parsed' = parse_scientific_number(value_str)
    /\ UNCHANGED <<value_str, data, inbox, density, chat, replyKb, event, renders,
                   storage, pc, boot, writes, procs, lock>>

ParseNext == ParseCall

SpecParse == ParseInit /\ [][ParseNext]_vars

----------------------------------------------------------------------------
(* The calculator: the free-text density command and calculate_density.    *)

SmallDigits == {"0", "1", "6"}

\* A number as the user means it: [-] int [. frac] [e [-] exp]
NumSpecs ==
    {n \in [neg : BOOLEAN, int : {<<d>> : d \in SmallDigits}, frac : {<<>>, <<"5">>},
            eneg : BOOLEAN, exp : {<<>>, <<"2">>}] :
        n.eneg => n.exp # <<>>}

NumValue(n) ==
    LET v == DecimalLiteral(n.int, n.frac, n.eneg, n.exp)
    IN  IF n.neg THEN RatNeg(v) ELSE v

\* The number written with a comma or a point, and with e or E
WriteNum(n, comma, bigE) ==
    (IF n.neg THEN <<"-">> ELSE <<>>) \o n.int
      \o (IF n.frac = <<>> THEN <<>> ELSE <<IF comma THEN "," ELSE ".">> \o n.frac)
      \o (IF n.exp = <<>> THEN <<>>
          ELSE <<IF bigE THEN "E" ELSE "e">> \o (IF n.eneg THEN <<"-">> ELSE <<>>) \o n.exp)

UpperChar(c) ==
    IF \E u \in UpperLetters : LowerChar(u) = c
    THEN CHOOSE u \in UpperLetters : LowerChar(u) = c
    ELSE c

Kw(kw, upper) == IF upper THEN [i \in 1..Len(kw) |-> UpperChar(kw[i])] ELSE kw

\* The command text: <density:> <mass=>m <radius=>r
Command(m, r, upper) ==
    Kw(KwDensity, upper) \o <<" ">> \o Kw(KwMass, upper) \o m
        \o <<" ">> \o Kw(KwRadius, upper) \o r

TypedCommand(m, r, upper, meant) == Inbox(Command(m, r, upper), m, r, meant)

NumCommands ==
    {TypedCommand(WriteNum(m, comma, bigE), WriteNum(r, comma, bigE), upper,
                  <<NumValue(m), NumValue(r)>>) :
        m \in NumSpecs, r \in NumSpecs, comma \in BOOLEAN, bigE \in BOOLEAN,
        upper \in BOOLEAN}

\* Commands whose mass is any short text, and commands that lack a keyword
TextCommands ==
    {TypedCommand(t, <<"1">>, FALSE, <<>>) : t \in GenTexts}
        \cup {Inbox(text, <<>>, <<>>, <<>>) :
                  text \in {KwDensity, KwDensity \o <<" ">> \o KwMass \o <<"1">>,
                            KwDensity \o <<" ">> \o KwRadius \o <<"1">>}}

DensityTexts == NumCommands \cup TextCommands

\* Mass and radius texts of catalogue records
CatTexts ==
    {<<"1">>, <<"2", ".", "5", " ", "k", "g">>, <<"0", " ", "m">>, <<"-", "1">>,
     <<"1", "e", "1">>, <<"5", "mul", "1", "0", "sup2", " ", "m">>,
     <<".", ".", ".">>, <<"k", "g">>, <<>>}

CustomCatalogues ==
    {("Test" :> [mass |-> m, radius |-> r]) : m \in CatTexts, r \in CatTexts}

DensityInit ==
    /\ value_str = <<>>
    /\ parsed = Pending
    /\ density = NoCalc
    /\ IdleChat
    /\ \/ data = ("Test" :> [mass |-> <<"1">>, radius |-> <<"1">>]) /\ inbox \in DensityTexts
       \/ data \in CustomCatalogues \cup {create_sample_data} /\ inbox = NoInbox
    /\ Serving(data)

\* The harness calls celestial_db.calculate_density(body_name).
CalcDensity(body_name) ==
    /\ inbox = NoInbox
    /\ ~density.done
    /\ density' = [name |-> body_name, result |-> calculate_density(data, body_name),
                   done |-> TRUE]
    /\ UNCHANGED <<value_str, parsed, data, inbox, chat, replyKb, event, renders,
                   storage, pc, boot, writes, procs, lock>>

\* The user sends the text of the inbox.
SendInbox ==
    /\ inbox # NoInbox
    /\ event = NoEvent
    /\ HandleMessage(inbox.text)

DensityNext ==
    \/ SendInbox
    \/ \E body_name \in DOMAIN data \cup {"Pluton"} : CalcDensity(body_name)

SpecDensity == DensityInit /\ [][DensityNext]_vars

----------------------------------------------------------------------------
(* Navigation: any sequence of events on the seeded catalogue. *)

NavTexts ==
    get_main_keyboard
        \cup {<<"p", "r", "i", "v", "e", "t">>,
              Command(<<"1">>, <<"1">>, FALSE),
              Command(<<"1">>, <<"0">>, TRUE),
              KwDensity}

\* The tokens pressed: buttons of each keyboard, and tokens no keyboard
\* carries (bodies off the planet list, an absent body, other pairs, a
\* pair of one or three names, an unknown task, unknown tokens).
NavTokens ==
    {<<"body", "Zemlya">>,
     <<"compare", "Zemlya", "Mars">>, <<"compare", "Yupiter", "Saturn">>,
     <<"compare", "Solntse", "Sirius">>,
     <<"task", "velocity">>,
     BackMain, BackPlanets, BackCompare, BackTasks}
        \cup {<<"body", "Solntse">>, <<"body", "Sirius">>, <<"body", "Pluton">>,
              <<"compare", "Zemlya">>, <<"compare", "Zemlya", "Venera">>,
              <<"compare", "Zemlya", "Pluton">>, <<"compare", "Zemlya", "Mars", "Uran">>,
              <<"task", "bonus">>, <<"noop">>}

NavInit ==
    /\ value_str = <<>>
    /\ parsed = Pending
    /\ data = create_sample_data
    /\ inbox = NoInbox
    /\ density = NoCalc
    /\ IdleChat
    /\ Serving(data)

NavNext ==
    \/ StartCommand
    \/ \E text \in NavTexts : HandleMessage(text)
    \/ \E m \in 1..MaxMsgs, parts \in NavTokens : ButtonCallback(m, parts)

SpecNav == NavInit /\ [][NavNext]_vars

----------------------------------------------------------------------------
(* Startup: the import of the module, main, and the events served after.  *)

\* The files a process may find: none, a text that is no JSON, the seeded
\* catalogue, an empty JSON object, a catalogue of one record.
BootStorages ==
    {Missing, Corrupt, Json(create_sample_data), Json(EmptyCatalogue),
     Json("Test" :> [mass |-> <<"1">>, radius |-> <<"1">>])}

BootInit ==
    /\ value_str = <<>>
    /\ parsed = Pending
    /\ data = EmptyCatalogue
    /\ inbox = NoInbox
    /\ density = NoCalc
    /\ IdleChat
    /\ storage \in BootStorages
    /\ pc = "import"
    /\ boot = [state |-> storage.state, save |-> "none"]
    /\ Alone

\* celestial_db = CelestialDatabase('celestial_data.json');
\* CELESTIAL_DATA = celestial_db.data.  Whether the file can be read counts
\* only when it is there, the outcome of the write only when it is not.
LoadData(readable, outcome) ==
    /\ pc = "import"
    /\ storage.state = "missing" \/ outcome = "ok"
    /\ storage.state = "json" \/ readable
    /\ data' = load_data(storage, readable, outcome).data
    /\ storage' = load_data(storage, readable, outcome).storage
    /\ pc' = "loaded"
    /\ boot' = [boot EXCEPT !.save = IF storage.state = "missing" THEN outcome ELSE "none"]
    /\ writes' = IF storage.state = "missing" /\ outcome # "open_failed"
                 THEN writes + 1 ELSE writes
    /\ UNCHANGED <<value_str, parsed, inbox, density, chat, replyKb, event, renders,
                   procs, lock>>

\* if not CELESTIAL_DATA: sys.exit(1)
CheckLoaded ==
    /\ pc = "loaded"
    /\ pc' = check_loaded(data)
    /\ UNCHANGED <<value_str, parsed, data, inbox, density, chat, replyKb, event, renders,
                   storage, boot, writes, procs, lock>>

\* main: create_file_lock() gives acquired; without the lock the process
\* exits, with it the handlers are registered and updates are served.
Main(acquired) ==
    /\ pc = "checked"
    /\ pc' = IF acquired THEN "serving" ELSE "locked_out"
    /\ UNCHANGED <<value_str, parsed, data, inbox, density, chat, replyKb, event, renders,
                   storage, boot, writes, procs, lock>>

BootTexts ==
    {LabelSun, LabelPlanets, <<"p", "r", "i", "v", "e", "t">>,
     Command(<<"1">>, <<"1">>, FALSE)}

BootTokens ==
    {<<"body", "Zemlya">>, <<"body", "Pluton">>, <<"compare", "Zemlya", "Mars">>,
     <<"task", "bonus">>, BackMain, BackPlanets, <<"noop">>}

\* An update is dispatched to its handler once the process serves.
BootNext ==
    \/ \E readable \in BOOLEAN, outcome \in SaveOutcomes : LoadData(readable, outcome)
    \/ CheckLoaded
    \/ \E acquired \in BOOLEAN : Main(acquired)
    \/ pc = "serving" /\ StartCommand
    \/ pc = "serving" /\ \E text \in BootTexts : HandleMessage(text)
    \/ pc = "serving" /\ \E m \in 1..MaxMsgs, parts \in BootTokens : ButtonCallback(m, parts)

SpecBoot == BootInit /\ [][BootNext]_vars

----------------------------------------------------------------------------
(* Several instances started side by side.  Each runs the import of the   *)
(* module (load_data: the test for the file, then the read or the seeding) *)
(* and then main (create_file_lock: open, then flock); on exit its         *)
(* cleanup_lock unlocks and closes, then removes the lock file.  The       *)
(* steps of different instances interleave.  import fcntl and the open of  *)
(* the lock file are taken to succeed.                                     *)

ProcInit ==
    /\ value_str = <<>>
    /\ parsed = Pending
    /\ data = EmptyCatalogue
    /\ inbox = NoInbox
    /\ density = NoCalc
    /\ IdleChat
    /\ storage \in {Missing, Corrupt, Json(create_sample_data)}
    /\ pc = "import"
    /\ boot = [state |-> storage.state, save |-> "none"]
    /\ Alone

\* What a step of the instances leaves alone
ProcFrame ==
    UNCHANGED <<value_str, parsed, data, inbox, density, chat, replyKb, event, renders,
                pc, boot>>

\* python astro_bot3.py: a new process
StartProcess(p) ==
    /\ procs[p].pc = "down"
    /\ procs' = [procs EXCEPT ![p].pc = "import"]
    /\ UNCHANGED <<storage, writes, lock>>
    /\ ProcFrame

\* load_data: os.path.exists(self.json_file) is false
FindNoFile(p) ==
    /\ procs[p].pc = "import"
    /\ storage.state = "missing"
    /\ procs' = [procs EXCEPT ![p].pc = "seeding"]
    /\ UNCHANGED <<storage, writes, lock>>
    /\ ProcFrame

\* The process after the module-level check on the catalogue d
AfterCheck(d) ==
    IF check_loaded(d) = "aborted" THEN Down
    ELSE [pc |-> "main", data |-> d, fd |-> NoInode]

\* load_data: create_sample_data and its save_data, on the file as it is
\* by now; then the module-level check
SeedFile(p, outcome) ==
    /\ procs[p].pc = "seeding"
    /\ LET Seeded(saved) ==
               /\ storage' = saved.storage
               /\ procs' = [procs EXCEPT ![p] =
                      AfterCheck(IF saved.raised THEN EmptyCatalogue
                                 ELSE create_sample_data)]
       IN  Seeded(save_data(storage, create_sample_data, outcome))
    /\ writes' = IF outcome # "open_failed" THEN writes + 1 ELSE writes
    /\ UNCHANGED lock
    /\ ProcFrame

\* load_data: the file exists and is read; then the module-level check
ReadFile(p, readable) ==
    /\ procs[p].pc = "import"
    /\ storage.state # "missing"
    /\ storage.state = "json" \/ readable
    /\ procs' = [procs EXCEPT ![p] = AfterCheck(load_data(storage, readable, "ok").data)]
    /\ UNCHANGED <<storage, writes, lock>>
    /\ ProcFrame

\* The inodes no process has open and the path does not name
FreeInodes == {i \in Inodes : i # lock.path /\ \A q \in Procs : procs[q].fd # i}

\* create_file_lock: lock_fd = open(lock_file, 'w') opens the inode under
\* the path, or creates one when the path names none.
OpenLockFile(p) ==
    /\ procs[p].pc = "main"
    /\ IF lock.path # NoInode
       THEN /\ procs' = [procs EXCEPT ![p].pc = "opened", ![p].fd = lock.path]
            /\ UNCHANGED lock
       ELSE \E i \in FreeInodes :
                /\ procs' = [procs EXCEPT ![p].pc = "opened", ![p].fd = i]
                /\ lock' = [lock EXCEPT !.path = i]
    /\ UNCHANGED <<storage, writes>>
    /\ ProcFrame

\* The flock of an instance on inode i is granted while no other holds one.
flock_granted(i) == lock.holder[i] = "none"

\* create_file_lock: fcntl.flock(lock_fd, LOCK_EX | LOCK_NB).  Granted, it
\* returns True and main goes on to serve; refused, the descriptor is
\* closed, it returns False and main exits.
TryFlock(p) ==
    /\ procs[p].pc = "opened"
    /\ IF flock_granted(procs[p].fd)
       THEN /\ lock' = [lock EXCEPT !.holder[procs[p].fd] = p]
            /\ procs' = [procs EXCEPT ![p].pc = "serving"]
       ELSE /\ procs' = [procs EXCEPT ![p] = Down]
            /\ UNCHANGED lock
    /\ UNCHANGED <<storage, writes>>
    /\ ProcFrame

\* The process ends; cleanup_lock: flock(lock_fd, LOCK_UN); lock_fd.close()
UnlockAndClose(p) ==
    /\ procs[p].pc = "serving"
    /\ lock' = [lock EXCEPT !.holder[procs[p].fd] = "none"]
    /\ procs' = [procs EXCEPT ![p].pc = "exiting", ![p].fd = NoInode]
    /\ UNCHANGED <<storage, writes>>
    /\ ProcFrame

\* cleanup_lock: if os.path.exists(lock_file): os.remove(lock_file)
RemoveLockFile(p) ==
    /\ procs[p].pc = "exiting"
    /\ lock' = [lock EXCEPT !.path = NoInode]
    /\ procs' = [procs EXCEPT ![p] = Down]
    /\ UNCHANGED <<storage, writes>>
    /\ ProcFrame

ProcTexts == {LabelPlanets, LabelSun}

ProcTokens == {<<"body", "Zemlya">>, BackMain}

\* An update is handled by an instance that serves.
ServeStart(p) ==
    /\ procs[p].pc = "serving"
    /\ StartCommand

ServeMessage(p, text) ==
    /\ procs[p].pc = "serving"
    /\ Handled("text", text, 0, handle_message(procs[p].data, text))

ServeButton(p, m, parts) ==
    /\ procs[p].pc = "serving"
    /\ m \in 1..Len(chat)
    /\ Handled("button", parts, m, button_callback(procs[p].data, parts))

ProcNext ==
    \E p \in Procs :
        \/ StartProcess(p)
        \/ FindNoFile(p)
        \/ \E outcome \in SaveOutcomes : SeedFile(p, outcome)
        \/ \E readable \in BOOLEAN : ReadFile(p, readable)
        \/ OpenLockFile(p)
        \/ TryFlock(p)
        \/ UnlockAndClose(p)
        \/ RemoveLockFile(p)
        \/ ServeStart(p)
        \/ \E text \in ProcTexts : ServeMessage(p, text)
        \/ \E m \in 1..MaxMsgs, parts \in ProcTokens : ServeButton(p, m, parts)

SpecProcs == ProcInit /\ [][ProcNext]_vars

----------------------------------------------------------------------------
(* Display: catalogues read from a file whose one record, the Sun, has a   *)
(* type and any part of the other attributes.                              *)

\* The attributes a record may lack
OptionalAttrs ==
    {"emoji", "name_en", "mass", "radius", "distance", "period", "luminosity",
     "temperature", "accuracy", "sources", "task", "solution"}

\* The record with a type and the attributes has
RecordWith(has) ==
    [f \in {"attrs"} \cup (has \cap {"mass", "radius"}) |->
        IF f = "attrs" THEN {"type"} \cup (has \ {"mass", "radius"}) ELSE <<"1">>]

DisplayCatalogues == {("Solntse" :> RecordWith(has)) : has \in SUBSET OptionalAttrs}

DisplayInit ==
    /\ value_str = <<>>
    /\ parsed = Pending
    /\ data \in DisplayCatalogues
    /\ inbox = NoInbox
    /\ density = NoCalc
    /\ IdleChat
    /\ Serving(data)

DisplayTokens == {<<"body", "Solntse">>, <<"compare", "Solntse", "Solntse">>}

DisplayNext ==
    \/ StartCommand
    \/ HandleMessage(LabelSun)
    \/ \E m \in 1..MaxMsgs, parts \in DisplayTokens : ButtonCallback(m, parts)

SpecDisplay == DisplayInit /\ [][DisplayNext]_vars

----------------------------------------------------------------------------
(* The menu: on the seeded catalogue the user sends /start, presses labels *)
(* of the main keyboard once it is shown, and presses inline buttons that  *)
(* a message on the screen carries.                                        *)

MenuInit ==
    /\ value_str = <<>>
    /\ parsed = Pending
    /\ data = create_sample_data
    /\ inbox = NoInbox
    /\ density = NoCalc
    /\ IdleChat
    /\ Serving(data)

\* A label of the main keyboard is pressed
PressLabel(text) ==
    /\ replyKb = "main_menu"
    /\ HandleMessage(text)

\* An inline button that message m carries is pressed
PressButton(m, parts) ==
    /\ m \in 1..Len(chat)
    /\ parts \in KeyboardTokens(chat[m])
    /\ ButtonCallback(m, parts)

MenuNext ==
    \/ StartCommand
    \/ \E text \in get_main_keyboard : PressLabel(text)
    \/ \E m \in 1..MaxMsgs, parts \in AllTokens : PressButton(m, parts)

SpecMenu == MenuInit /\ [][MenuNext]_vars

----------------------------------------------------------------------------
(* Properties of navigation (SpecNav) *)

\* C1: navigation is total: every text and every button token, an unknown
\* token and a compare token without exactly two names included, is answered
\* with at least one outbound call.
C1_EveryEventIsAnswered ==
    event.kind # "none" => renders # <<>>

\* The screens back leads from, read off a render: the detail of one of the
\* eight planets, a comparison result, a task result.
IsDetail(r) ==
    \/ r.kind = "body_info" /\ r.call = "edit_message_text" /\ r.args[1] \in PlanetNames
    \/ r.kind = "comparison"
    \/ r.kind = "task"

\* The prompt and keyboard of the picker that produces the screen of render r
PickerOf(r) ==
    CASE r.kind = "body_info" -> <<"planet_prompt", "planet_picker">>
      [] r.kind = "comparison" -> <<"compare_prompt", "compare_picker">>
      [] r.kind = "task" -> <<"task_prompt", "task_picker">>

\* The pressed message showed a lone back button, and that button was pressed.
BackPressedOnDetail ==
    /\ event.kind = "button"
    /\ event.shown \in {"back_planets_button", "back_compare_button", "back_tasks_button"}
    /\ event.payload \in KeyboardTokens(event.shown)

\* The picker a lone back button belongs to, by the screen it stands under
PickerUnder(markup) ==
    CASE markup = "back_planets_button" -> "planet_picker"
      [] markup = "back_compare_button" -> "compare_picker"
      [] markup = "back_tasks_button" -> "task_picker"

\* C2: after any sequence of events, a detail or result screen (a planet's
\* detail, a comparison, a task) is rendered with exactly one button, and
\* pressing that button renders the picker that produces the screen, in
\* place; when such a button has just been pressed, the message shows that
\* picker and nothing else was sent.
C2_BackLeadsToOwnPicker ==
    /\ \A i \in 1..Len(renders) :
          IsDetail(renders[i]) =>
              /\ Cardinality(KeyboardTokens(renders[i].markup)) = 1
              /\ PickerUnder(renders[i].markup) = PickerOf(renders[i])[2]
              /\ \A t \in KeyboardTokens(renders[i].markup) :
                    button_callback(data, t) =
                        <<Edit(PickerOf(renders[i])[1], <<>>, PickerOf(renders[i])[2])>>
    /\ BackPressedOnDetail =>
          /\ Len(renders) = 1
          /\ renders[1].call = "edit_message_text"
          /\ renders[1].markup = PickerUnder(event.shown)
          /\ event.msg > 0
          /\ chat[event.msg] = PickerUnder(event.shown)

\* A planet's detail was opened from the picker, and its back button pressed.
C2_BackPressedOnPlanetDetail ==
    /\ BackPressedOnDetail
    /\ event.shown = "back_planets_button"
    /\ chat[event.msg] = "planet_picker"

\* C3: a body token naming a body absent from the catalogue, pressed on a
\* message showing the planet picker, is answered in place with the
\* not-found message, and the message still shows the planet picker.
C3_NotFoundKeepsPicker ==
    (/\ event.kind = "button"
     /\ Len(event.payload) = 2
     /\ event.payload[1] = "body"
     /\ event.payload[2] \notin DOMAIN data
     /\ event.shown = "planet_picker")
        => /\ Len(renders) = 1
           /\ renders[1].kind = "body_not_found"
           /\ renders[1].call = "edit_message_text"
           /\ event.msg > 0
           /\ chat[event.msg] = "planet_picker"

\* The number v lies in the closed interval [lo, hi].
Within(v, lo, hi) == IsNum(v) /\ ~RatLess(v, lo) /\ ~RatLess(hi, v)

\* Render r is the comparison of Jupiter and Saturn.
IsJupiterSaturn(r) ==
    r.kind = "comparison" /\ r.args = <<"Yupiter", "Saturn", "narrative">>

\* C11: on the seeded catalogue, the comparison of Jupiter and Saturn shows
\* a computed density ratio (Jupiter over Saturn) within 1.93 +- 0.05, that
\* is between 1.88 and 1.98.
C11_JupiterSaturnRatio ==
    \A i \in 1..Len(renders) :
        IsJupiterSaturn(renders[i]) =>
            /\ Len(renders[i].nums) = 3
            /\ Within(renders[i].nums[3],
                      DecimalLiteral(<<"1">>, <<"8", "8">>, FALSE, <<>>),
                      DecimalLiteral(<<"1">>, <<"9", "8">>, FALSE, <<>>))

\* The event matches no transition: a text that is no label of the main
\* keyboard and no density command, or a button token that is no back token
\* and does not begin with body, compare or task.
Unrecognized ==
    \/ /\ event.kind = "text"
       /\ event.payload \notin get_main_keyboard
       /\ ~startswith(lower(event.payload), KwDensity)
    \/ /\ event.kind = "button"
       /\ event.payload \notin {BackMain, BackPlanets, BackCompare, BackTasks}
       /\ ~(Len(event.payload) >= 2 /\ event.payload[1] \in {"body", "compare", "task"})

\* C12: an unrecognized event, text or button token, is answered with the
\* use-the-menu prompt carrying the main keyboard, and nothing else.
C12_UnrecognizedReturnsToMainMenu ==
    Unrecognized =>
        /\ renders = <<Reply("use_menu", <<>>, "main_menu")>>
        /\ replyKb = "main_menu"

\* A compare token naming two bodies that are none of the four fixed pairs
\* was pressed.
OtherPairPressed ==
    /\ event.kind = "button"
    /\ Len(event.payload) = 3
    /\ event.payload[1] = "compare"
    /\ <<event.payload[2], event.payload[3]>> \notin ComparePairs

\* C13: a comparison is rendered for the four fixed pairs only: a compare
\* token naming any other pair, even of two bodies of the catalogue, is
\* answered in place with the not-found message and no comparison screen.
C13_OnlyFixedPairsCompared ==
    OtherPairPressed =>
        /\ Len(renders) = 1
        /\ renders[1].call = "edit_message_text"
        /\ renders[1].kind = "pair_not_found"

\* A task token whose identifier is none of the five fixed ones was pressed
\* on a message showing the task picker.
UnknownTaskPressed ==
    /\ event.kind = "button"
    /\ Len(event.payload) = 2
    /\ event.payload[1] = "task"
    /\ event.payload[2] \notin TaskTypes
    /\ event.shown = "task_picker"

\* C14: a task token with an unknown identifier is answered in place with
\* the fallback message, no task is rendered, and the message still shows
\* the task picker.
C14_UnknownTaskKeepsPicker ==
    UnknownTaskPressed =>
        /\ Len(renders) = 1
        /\ renders[1].call = "edit_message_text"
        /\ renders[1].kind = "task_choose_from_list"
        /\ event.msg > 0
        /\ chat[event.msg] = "task_picker"

\* The calls rs end on the main menu and show no planet picker.
LeadsToMainMenu(rs) ==
    /\ rs # <<>>
    /\ rs[Len(rs)].markup = "main_menu"
    /\ \A i \in 1..Len(rs) : rs[i].markup # "planet_picker"

\* The calls rs end on the planet picker and show no main menu.
LeadsToPlanetPicker(rs) ==
    /\ rs # <<>>
    /\ rs[Len(rs)].markup = "planet_picker"
    /\ \A i \in 1..Len(rs) : rs[i].markup # "main_menu"

\* The Sun or Sirius was asked for through its label on the main keyboard.
ShortcutPressed == event.kind = "text" /\ event.payload \in {LabelSun, LabelSirius}

\* The lone back button of kind markup was pressed on the message showing it.
BackPressedOn(markup) ==
    /\ event.kind = "button"
    /\ event.shown = markup
    /\ event.payload \in KeyboardTokens(markup)

\* C15: a body shown through a shortcut of the main menu (Sun, Sirius) comes
\* as a new message with the main keyboard and no inline button, so the way
\* on is the main menu, never the planet picker; a body shown in place
\* carries exactly one back button, which leads to the planet picker (and
\* not the main menu) for a planet and to the main menu (and not the planet
\* picker) for any other body; once such a button is pressed the screen is
\* the one it leads to.
C15_BackFollowsOrigin ==
    /\ ShortcutPressed =>
            /\ Len(renders) = 1
            /\ renders[1].call = "reply_text"
            /\ renders[1].kind = "body_info"
            /\ renders[1].markup = "main_menu"
            /\ KeyboardTokens(renders[1].markup) = {}
            /\ replyKb = "main_menu"
            /\ chat[Len(chat)] = "none"
    /\ \A i \in 1..Len(renders) :
            (renders[i].kind = "body_info" /\ renders[i].call = "edit_message_text") =>
                /\ Cardinality(KeyboardTokens(renders[i].markup)) = 1
                /\ \A t \in KeyboardTokens(renders[i].markup) :
                        IF renders[i].args[1] \in PlanetNames
                        THEN LeadsToPlanetPicker(button_callback(data, t))
                        ELSE LeadsToMainMenu(button_callback(data, t))
    /\ BackPressedOn("back_main_button") =>
            /\ LeadsToMainMenu(renders)
            /\ replyKb = "main_menu"
            /\ \A m \in 1..Len(chat) : chat[m] = "planet_picker" => m # event.msg
    /\ BackPressedOn("back_planets_button") =>
            /\ LeadsToPlanetPicker(renders)
            /\ event.msg > 0
            /\ chat[event.msg] = "planet_picker"

\* The Sun was shown through its shortcut: a new message under the main
\* keyboard, without inline buttons.
C15_SunShownByShortcut ==
    /\ event.kind = "text"
    /\ event.payload = LabelSun
    /\ renders = <<Reply("body_info", <<"Solntse">>, "main_menu")>>
    /\ replyKb = "main_menu"
    /\ chat[Len(chat)] = "none"

\* The back button of a picker was pressed on the message showing the picker.
PickerBackPressed ==
    /\ event.kind = "button"
    /\ event.shown \in {"planet_picker", "compare_picker", "task_picker"}
    /\ event.payload = BackMain

WithPlainMessage(c) ==
    IF Len(c) = MaxMsgs THEN Append(Tail(c), "none") ELSE Append(c, "none")

\* C25: whatever the chat shows when a density command arrives, the answer
\* (a result or an explanation) is one message without markup, the reply
\* keyboard stays as it was, and every message on screen keeps the inline
\* buttons it had, so the buttons last rendered stay the valid next events.
C25_DensityCommandKeepsScreen ==
    [][(event'.kind = "text" /\ startswith(lower(event'.payload), KwDensity)) =>
          /\ Len(renders') = 1
          /\ renders'[1].call = "reply_text"
          /\ renders'[1].markup = "none"
          /\ replyKb' = replyKb
          /\ chat' = WithPlainMessage(chat)]_vars

\* A density command was answered with a result below a message that
\* still shows the planet picker.
C25_CommandBelowPlanetPicker ==
    /\ event.kind = "text"
    /\ event.payload = Command(<<"1">>, <<"1">>, FALSE)
    /\ Len(renders) = 1
    /\ renders[1].kind = "density_result"
    /\ Len(chat) = MaxMsgs
    /\ chat[Len(chat) - 1] = "planet_picker"
    /\ chat[Len(chat)] = "none"

----------------------------------------------------------------------------
(* Properties of the parser (SpecParse) *)

\* s is <d>.<d> mul 10 followed by superscript digits from position first on
IsSciFrom(s, first) ==
    /\ Len(s) >= first
    /\ s[1] \in Digits /\ s[2] = "." /\ s[3] \in Digits
    /\ s[4] = "mul" /\ s[5] = "1" /\ s[6] = "0"
    /\ \A i \in first..Len(s) : s[i] \in SupDigits

\* The exponent digits written in superscript from position first on
SciExponent(s, first) == [i \in 1..(Len(s) - first + 1) |-> superscript_map[s[first + i - 1]]]

\* The call returned the number v.
ParsedIs(v) == IsNum(parsed) /\ IsNum(v) /\ RatEq(parsed, v)

\* C4: for every text <d>.<d> mul 10 <superscript exponent>, the parser
\* returns the value of the plain-exponent literal <d>.<d> * 10^exponent.
C4_RoundTrip ==
    (parsed # Pending /\ IsSciFrom(value_str, 7))
        => ParsedIs(DecimalLiteral(<<value_str[1]>>, <<value_str[3]>>, FALSE,
                                   SciExponent(value_str, 7)))

\* C5: a text whose exponent carries a superscript minus,
\* <d>.<d> mul 10 <sup-> <superscript digits>, parses to <d>.<d> * 10^(-n).
C5_NegativeExponent ==
    (parsed # Pending /\ IsSciFrom(value_str, 8) /\ value_str[7] = "sup-")
        => ParsedIs(DecimalLiteral(<<value_str[1]>>, <<value_str[3]>>, TRUE,
                                   SciExponent(value_str, 8)))

\* C6: for the empty text and every text without any digit (plain or
\* superscript), the parser returns None.
C6_NoDigitsIsNone ==
    (parsed # Pending /\ \A i \in 1..Len(value_str) : value_str[i] \notin Digits \cup SupDigits)
        => parsed = None

----------------------------------------------------------------------------
(* Properties of the calculator (SpecDensity) *)

\* The parsed mass and radius of the record calculate_density was called on
RecordValue(field) == parse_scientific_number(GetField(data[density.name], field))

\* calculate_density was called on a record whose mass and radius parse to numbers.
CalledOnParsedRecord ==
    /\ density.done
    /\ density.name \in DOMAIN data
    /\ IsNum(RecordValue("mass"))
    /\ IsNum(RecordValue("radius"))

\* (4/3) * pi * r * r * r
BallVolume(r) == RatMul(RatMul(FourThirds, PI), RatMul(r, RatMul(r, r)))

\* C7: for every record whose mass and radius both parse, calculate_density
\* returns a density that is strictly positive and equal to
\* mass / ((4/3) pi radius^3).
C7_DensityPositive ==
    CalledOnParsedRecord
        => /\ density.result.k = "dict"
           /\ density.result.density_kg_m3.s > 0
           /\ RatEq(RatMul(density.result.density_kg_m3, BallVolume(RecordValue("radius"))),
                    RecordValue("mass"))

\* The numbers the sent command carries, as the handler reads them
CommandValue(typed) == float(replace_comma(lower(typed)))

\* A density command was sent whose mass and radius the handler reads as numbers.
CommandSent ==
    /\ event.kind = "text"
    /\ inbox.radius # <<>>
    /\ IsNum(CommandValue(inbox.mass))
    /\ IsNum(CommandValue(inbox.radius))

\* C8: whenever the radius is zero or negative, no volume and no density
\* is reported: the free-text command answers without numbers, and
\* calculate_density returns no result.
C8_NonPositiveRadiusUndefined ==
    /\ (CommandSent /\ CommandValue(inbox.radius).s <= 0)
          => \A i \in 1..Len(renders) : renders[i].nums = <<>>
    /\ (CalledOnParsedRecord /\ RecordValue("radius").s <= 0)
          => density.result.k = "none"

\* The numbers of render r are what the calculator gives for (mass, radius).
SameAsCalculator(r, mass, radius) ==
    LET direct == DensityOfValues(mass, radius)
    IN  /\ Len(r.nums) = 5
        /\ RatEq(r.nums[1], mass)
        /\ RatEq(r.nums[2], radius)
        /\ RatEq(r.nums[3], direct.volume)
        /\ RatEq(r.nums[4], direct.density_kg_m3)
        /\ RatEq(r.nums[5], direct.density_g_cm3)

\* C9: for every mass and every positive radius, the command
\* <density:> <mass=>m <radius=>r is answered with the volume and density
\* the calculator gives for (m, r), whatever the case of its letters and
\* whether the decimal separator is a comma or a point.
C9_CommandSameAsCalculator ==
    (event.kind = "text" /\ inbox.meant # <<>> /\ inbox.meant[2].s > 0)
        => /\ Len(renders) = 1
           /\ renders[1].kind = "density_result"
           /\ SameAsCalculator(renders[1], inbox.meant[1], inbox.meant[2])

\* A command in capitals with decimal commas was answered with a result.
C9_CapitalsAndCommaAnswered ==
    /\ event.kind = "text"
    /\ inbox.meant # <<>>
    /\ inbox.meant[2].s > 0
    /\ \E i \in 1..Len(inbox.text) : inbox.text[i] = ","
    /\ inbox.text[1] = "P"
    /\ Len(renders) = 1
    /\ renders[1].kind = "density_result"
    /\ renders[1].nums[4].s # 0

\* C10: every number text parse_scientific_number accepts is accepted as the
\* mass of the command and denotes the same value there.
C10_CommandAcceptsParserSyntax ==
    (/\ event.kind = "text"
     /\ inbox.radius = <<"1">>
     /\ inbox.meant = <<>>
     /\ IsNum(parse_scientific_number(inbox.mass)))
        => /\ Len(renders) = 1
           /\ renders[1].kind = "density_result"
           /\ RatEq(renders[1].nums[1], parse_scientific_number(inbox.mass))

\* A density command was sent that lacks a keyword, or whose mass or radius
\* is empty or no number float accepts.
MalformedCommandSent ==
    /\ event.kind = "text"
    /\ startswith(lower(inbox.text), KwDensity)
    /\ \/ FindFrom(lower(inbox.text), KwMass, 1) = 0
       \/ FindFrom(lower(inbox.text), KwRadius, 1) = 0
       \/ CommandValue(inbox.mass) = None
       \/ CommandValue(inbox.radius) = None

\* C22: a malformed density command is answered with exactly one plain
\* message that explains the error (wrong format, or wrong number) and
\* carries no number and no markup; no exception leaves the handler
\* unanswered, and the process goes on serving.
C22_MalformedCommandExplained ==
    MalformedCommandSent =>
        /\ Len(renders) = 1
        /\ renders[1].call = "reply_text"
        /\ renders[1].kind \in {"density_bad_format", "density_bad_number"}
        /\ renders[1].nums = <<>>
        /\ renders[1].markup = "none"
        /\ pc = "serving"

\* The command with the mass "1e", an exponent without digits, was
\* answered with the explanation of a wrong number.
C22_BrokenExponentExplained ==
    /\ MalformedCommandSent
    /\ inbox.mass = <<"1", "e">>
    /\ inbox.radius = <<"1">>
    /\ renders = <<Reply("density_bad_number", <<>>, "none")>>

\* The call r puts at least one button before the user: an inline keyboard
\* with a button, or the main keyboard.
OffersButton(r) == KeyboardTokens(r.markup) # {} \/ r.markup = "main_menu"

\* C28: no screen is a dead end: the answer to every button token, the
\* not-found answers to an unknown body or pair included, offers at least
\* one button.
C28_EveryRenderOffersButton ==
    (event.kind = "button" /\ renders # <<>>) =>
        \E i \in 1..Len(renders) : OffersButton(renders[i])

----------------------------------------------------------------------------
(* Properties of display (SpecDisplay) *)

\* The detail of the Sun was asked for, by its label or by its token.
SunRequested ==
    \/ event.kind = "text" /\ event.payload = LabelSun
    \/ event.kind = "button" /\ event.payload = <<"body", "Solntse">>

\* Every attribute of the detail text, in the order of the text
DetailAttrs ==
    <<"emoji", "name_en", "type", "mass", "radius">> \o ShownIfPresent
        \o <<"accuracy", "sources", "task", "solution">>

\* C23: for every record that has a type, whatever part of the other
\* attributes it lacks, a request for its detail is answered with the
\* detail screen, and the text shows exactly the attributes the record has.
C23_PartialRecordDisplayable ==
    (SunRequested /\ HasAttr(data["Solntse"], "type")) =>
        /\ Len(renders) = 1
        /\ renders[1].kind = "body_info"
        /\ ~format_body_info(data["Solntse"]).raised
        /\ format_body_info(data["Solntse"]).shown = PresentOf(data["Solntse"], DetailAttrs)

----------------------------------------------------------------------------
(* Properties of startup and of the catalogue store (SpecBoot) *)

\* The names of the built-in records: the Sun, the eight planets, Sirius
BuiltInNames == PlanetNames \cup {"Solntse", "Sirius"}

\* The process found no file, and the load has returned.
LoadedWithoutFile == boot.state = "missing" /\ pc # "import"

\* C17: when the file is missing at startup, the catalogue in memory after
\* the load is exactly the ten built-in records (Sun, eight planets,
\* Sirius), the file holds them once the write has succeeded, and the
\* process is not aborted for want of a catalogue: it passes the check
\* after the load and goes on to main and to serving.
C17_MissingStorageIsSeeded ==
    LoadedWithoutFile =>
        /\ DOMAIN data = BuiltInNames
        /\ Cardinality(DOMAIN data) = 10
        /\ data = create_sample_data
        /\ boot.save = "ok" => storage = Json(data)
        /\ pc \in {"loaded", "checked", "serving", "locked_out"}
        /\ pc = "loaded" => check_loaded(data) = "checked"

\* A process that found no file seeded it and has answered the Sun's label
\* from the built-in records.
C17_SeededAndServing ==
    /\ boot = [state |-> "missing", save |-> "ok"]
    /\ storage = Json(create_sample_data)
    /\ pc = "serving"
    /\ event.kind = "text"
    /\ event.payload = LabelSun
    /\ renders = <<Reply("body_info", <<"Solntse">>, "main_menu")>>

\* C18: when the file holds text that is no JSON, the load leaves the
\* catalogue empty and the file as it was, the process ends at the check
\* after the load, and no event is handled; a process whose catalogue is
\* empty never reaches main and never handles an event.
C18_MalformedStorageAborts ==
    /\ (boot.state = "corrupt" /\ pc # "import") =>
            /\ data = EmptyCatalogue
            /\ storage = Corrupt
            /\ boot.save = "none"
            /\ pc \in {"loaded", "aborted"}
    /\ data = EmptyCatalogue =>
            /\ pc \in {"import", "loaded", "aborted"}
            /\ event = NoEvent
            /\ renders = <<>>

\* The process found a file that is no JSON and has exited at the check.
C18_AbortedOnMalformedFile ==
    /\ boot.state = "corrupt"
    /\ pc = "aborted"
    /\ data = EmptyCatalogue
    /\ storage = Corrupt

\* The write of the seeded catalogue failed.
SaveFailed == boot.save \in {"open_failed", "dump_failed"}

\* C19: when the write of the seeded catalogue fails, the catalogue in
\* memory still holds the ten built-in records, the process is not aborted,
\* and every event is answered as it is on the seeded catalogue, that is as
\* if the write had succeeded.
C19_SaveFailureIsNotFatal ==
    SaveFailed =>
        /\ DOMAIN data = BuiltInNames
        /\ data = create_sample_data
        /\ pc \in {"loaded", "checked", "serving", "locked_out"}
        /\ pc = "loaded" => check_loaded(data) = "checked"
        /\ event.kind = "text" => renders = handle_message(create_sample_data, event.payload)
        /\ event.kind = "button" => renders = button_callback(create_sample_data, event.payload)

\* The write failed half way and left a truncated file; the process serves
\* and has shown the Earth from the records in memory.
C19_ServingAfterFailedSave ==
    /\ boot = [state |-> "missing", save |-> "dump_failed"]
    /\ storage = Corrupt
    /\ pc = "serving"
    /\ event.kind = "button"
    /\ event.payload = <<"body", "Zemlya">>
    /\ Len(renders) = 1
    /\ renders[1].kind = "body_info"

\* C20: once the process serves, every step, that is every handled event
\* (a label, a button token, a density command, an unknown identifier),
\* leaves the catalogue in memory and the file unchanged.
C20_CatalogueReadOnly ==
    [][pc = "serving" => (data' = data /\ storage' = storage)]_vars

\* Events of each kind were handled by a process whose write had failed:
\* the file is still missing and the catalogue still holds the ten records.
C20_HandledWithoutFile ==
    /\ pc = "serving"
    /\ boot = [state |-> "missing", save |-> "open_failed"]
    /\ storage = Missing
    /\ data = create_sample_data
    /\ event.kind = "button"
    /\ event.payload = <<"task", "bonus">>
    /\ event.shown = "planet_picker"
    /\ Len(chat) = MaxMsgs

----------------------------------------------------------------------------
(* Properties of several instances (SpecProcs) *)

\* C21: over any interleaving of process startups and handled events, the
\* file celestial_data.json is written at most once.
C21_StorageWrittenAtMostOnce == writes <= 1

\* The instances for which create_file_lock returned True and that have
\* not begun to exit
Running == {p \in Procs : procs[p].pc = "serving"}

\* C26: over any interleaving of process starts and exits, at most one
\* live process has had create_file_lock return True.
C26_AtMostOneInstanceRuns == Cardinality(Running) <= 1

----------------------------------------------------------------------------
(* Properties of the menu (SpecMenu) *)

\* The answers that tell the user the event named nothing known
NotFoundKinds == {"body_not_found", "pair_not_found", "task_choose_from_list", "use_menu"}

\* The calls rs answer the event and none of them is a not-found answer
Matched(rs) ==
    /\ rs # <<>>
    /\ \A i \in 1..Len(rs) : rs[i].kind \notin NotFoundKinds

\* Every button of the keyboard markup, pressed, is matched
OffersHandledOnly(markup) ==
    /\ \A parts \in KeyboardTokens(markup) : Matched(button_callback(data, parts))
    /\ markup = "main_menu" =>
           \A text \in get_main_keyboard : Matched(handle_message(data, text))

\* C27: with the seeded catalogue, when the user sends only labels of the
\* main keyboard and tokens of inline keyboards rendered before, every
\* event is matched by a handler branch, no not-found message is produced,
\* and every keyboard rendered in answer carries only handled tokens.
C27_RenderedTokensAreHandled ==
    event.kind # "none" =>
        /\ Matched(renders)
        /\ \A i \in 1..Len(renders) : OffersHandledOnly(renders[i].markup)

\* A planet was picked on the planet picker, and the message now carries
\* the button back to the planets, below a main keyboard.
C27_PlanetPickedOnPicker ==
    /\ event.kind = "button"
    /\ event.payload = <<"body", "Neptun">>
    /\ event.shown = "planet_picker"
    /\ event.msg > 0
    /\ chat[event.msg] = "back_planets_button"
    /\ replyKb = "main_menu"

=============================================================================
